---- MODULE Spec2Model ----
(***************************************************************************)
(* Paginated fetch-and-checkpoint engine of x_likes_exporter:              *)
(*   RateLimitInfo / XAPIClient.fetch_all_likes   (client.py)              *)
(*   Checkpoint                                    (checkpoint.py)         *)
(*   XLikesExporter.fetch_likes                    (exporter.py)           *)
(* One XLikesExporter is driven through a bounded number of fetch_likes    *)
(* calls; every blocking point of fetch_all_likes is a value of pc.        *)
(***************************************************************************)
EXTENDS Integers, Sequences, FiniteSets, TLC

VARIABLES
    streamLen,          \* API: number of pages of every user's likes stream
    emptyPage,          \* API: index of the page that parses to zero records (0: none)
    pageSize,           \* API: number of records of every other page
    enable_checkpoints, \* XLikesExporter.__init__ argument (self.checkpoint is not None)
    selfTweets,         \* XLikesExporter.tweets
    metaFile,           \* .export_checkpoint.json
    tweetsFile,         \* .export_tweets.pkl
    pc,                 \* position of the single flow of control
    user_id,            \* fetch_likes argument
    resume,             \* fetch_likes argument
    stop_callback,      \* fetch_likes argument: TRUE iff a stop predicate was supplied
    start_cursor,       \* fetch_likes local
    all_tweets,         \* fetch_all_likes local
    cursor,             \* fetch_all_likes local
    page_count,         \* fetch_all_likes local
    tweets,             \* fetch_all_likes local: records of the last page
    next_cursor,        \* fetch_all_likes local: next cursor of the last page
    rate_limit,         \* fetch_all_likes local: RateLimitInfo of the last page
    wait_time,          \* fetch_all_likes local
    stop_checks,        \* evaluations of the stop predicate in the current call
    delays,             \* polite delays slept through in the current call
    runs,               \* number of fetch_likes calls made so far
    outcome,            \* how the last finished fetch_likes call ended
    result,             \* the list the last finished fetch_likes call returned
    prev,               \* user and outcome of the call before the current one
    seed,               \* records loaded from the checkpoint by the current call
    requests,           \* cursors carried by the page requests of the current call
    stopped,            \* the stop predicate returned true in the current call
    probe,              \* inputs and results of a RateLimitInfo evaluation
    last,               \* the last Checkpoint method called directly, and what it returned
    cookies,            \* CookieManager.cookies: for each cookie name, what the file holds
    auth,               \* XAuthenticator: its caches, its network fetches, its last call
    response            \* an API response body that fetch_likes parses

vars == <<streamLen, emptyPage, pageSize, enable_checkpoints, selfTweets, metaFile,
          tweetsFile, pc, user_id, resume, stop_callback, start_cursor, all_tweets,
          cursor, page_count, tweets, next_cursor, rate_limit, wait_time, stop_checks,
          delays, runs, outcome, result, prev, seed, requests, stopped, probe, last,
          cookies, auth, response>>

apiVars == <<streamLen, emptyPage, pageSize, enable_checkpoints>>
fileVars == <<metaFile, tweetsFile>>
argVars == <<user_id, resume, stop_callback, start_cursor>>
loopVars == <<all_tweets, cursor, page_count, tweets, next_cursor, rate_limit, wait_time,
              stop_checks, delays>>
auxVars == <<cookies, auth, response>>
obsVars == <<probe, last, auxVars>>

-----------------------------------------------------------------------------
(* Bounds of the model *)

MaxPages == 2
RecordsPerPage == 2
MaxRuns == 3
MaxRemaining == 2
MaxNow == 10
MaxReset == 40
MaxSaves == 2
MaxBatch == 3
LongPages == 11
LongRuns == 2
CredRuns == 1
MaxCalls == 4
ChainPages == 3
ChainRuns == 2
MaxEntries == 3
LiveRuns == 2
WaitRuns == 2

(* Program constants *)

checkpoint_interval == 10
count == 20
WaitBuffer == 5

None == 0

Users == {"A", "B"}

-----------------------------------------------------------------------------
(* The API: a fixed finite stream of pages per user.  Page i is requested   *)
(* with cursor i (page 1 with no cursor) and answers with cursor i+1, the   *)
(* last page with no cursor.                                                *)

Tweet(u, i, j) == [id |-> <<u, i, j>>]

PageTweets(u, i) ==
    IF i = emptyPage THEN <<>>
    ELSE [j \in 1..pageSize |-> Tweet(u, i, j)]

PageNextCursor(i) == IF i < streamLen THEN i + 1 ELSE None

PageOfCursor(c) == IF c = None THEN 1 ELSE c

-----------------------------------------------------------------------------
(* RateLimitInfo (client.py)                                                *)

RateLimitInfo(l, r, t) == [limit |-> l, remaining |-> r, reset |-> t]

NoRateLimit == RateLimitInfo(0, 0, 0)

ShouldWait(rl) == rl.remaining <= 1

GetWaitTimeNoBuffer(rl, now) ==
    LET w == rl.reset - now IN IF w > 0 THEN w ELSE 0

GetWaitTime(rl, now) ==
    LET w == rl.reset - now + WaitBuffer IN IF w > 0 THEN w ELSE 0

-----------------------------------------------------------------------------------------------------------------------------------------------------
(* Checkpoint (checkpoint.py).  The two artifacts are the variables        *)
(* metaFile and tweetsFile; an operator returns the pair of files it       *)
(* leaves.  A file that is present can be unreadable: open(..., 'w')       *)
(* truncates it before json.dump / pickle.dump writes, so a process killed *)
(* inside a write leaves a file json.load / pickle.load raises on.  The    *)
(* metadata fields download_media, timestamp and version are written and  *)
(* never read by the engine; they are left out.                            *)

NoMeta == [present |-> FALSE, readable |-> FALSE, user_id |-> "", cursor |-> None,
           total_fetched |-> 0]
NoTweets == [present |-> FALSE, readable |-> FALSE, tweets |-> <<>>]

\* A file opened for writing whose content was not (completely) written.
TruncatedMeta == [NoMeta EXCEPT !.present = TRUE]
TruncatedTweets == [NoTweets EXCEPT !.present = TRUE]

Files(m, t) == [meta |-> m, tweets |-> t]

CheckpointSaveAppending(uid, tw, cur, total) ==
    Files([present |-> TRUE, readable |-> TRUE, user_id |-> uid, cursor |-> cur,
           total_fetched |-> total],
          [present |-> TRUE, readable |-> TRUE, tweets |-> tweetsFile.tweets \o tw])

CheckpointSave(uid, tw, cur, total) ==
    Files([present |-> TRUE, readable |-> TRUE, user_id |-> uid, cursor |-> cur,
           total_fetched |-> total],
          [present |-> TRUE, readable |-> TRUE, tweets |-> tw])

\* The points of save() at which the process can be killed: inside the
\* metadata write (lines 56-57), between the two writes (after line 57,
\* before line 60), inside the payload write (lines 60-61).
CrashPoints == {"meta_open", "meta_written", "payload_open"}

\* The files a save() of (uid, tw, cur, total) leaves when killed at point.
CheckpointSaveInterrupted(f, uid, tw, cur, total, point) ==
    IF point = "meta_open" THEN Files(TruncatedMeta, f.tweets)
    ELSE IF point = "meta_written"
         THEN Files(CheckpointSave(uid, tw, cur, total).meta, f.tweets)
         ELSE Files(CheckpointSave(uid, tw, cur, total).meta, TruncatedTweets)

CheckpointExistsMetaOnly(f) == f.meta.present

CheckpointExists(f) == f.meta.present /\ f.tweets.present

NotFound == [found |-> FALSE, user_id |-> "", cursor |-> None, total_fetched |-> 0,
             tweets |-> <<>>]

CheckpointLoadNoPayload(f) ==
    IF f.meta.present /\ f.meta.readable
    THEN [found |-> TRUE, user_id |-> f.meta.user_id, cursor |-> f.meta.cursor,
          total_fetched |-> f.meta.total_fetched, tweets |-> <<>>]
    ELSE NotFound

CheckpointLoadUnguarded(f) ==
    IF ~f.meta.present THEN NotFound
    ELSE [found |-> TRUE, user_id |-> f.meta.user_id, cursor |-> f.meta.cursor,
          total_fetched |-> f.meta.total_fetched,
          tweets |-> IF f.tweets.present THEN f.tweets.tweets ELSE <<>>]

\* load(): None without the metadata file (line 72); None when json.load or
\* pickle.load raises (lines 90-92); an absent payload loads as [] (line 86).
CheckpointLoad(f) ==
    IF ~f.meta.present THEN NotFound
    ELSE IF ~f.meta.readable THEN NotFound
    ELSE IF f.tweets.present /\ ~f.tweets.readable THEN NotFound
    ELSE [found |-> TRUE, user_id |-> f.meta.user_id, cursor |-> f.meta.cursor,
          total_fetched |-> f.meta.total_fetched,
          tweets |-> IF f.tweets.present THEN f.tweets.tweets ELSE <<>>]

CheckpointClearMetaOnly(f) == Files(NoMeta, f.tweets)

CheckpointClearPayloadOnly(f) == Files(f.meta, NoTweets)

CheckpointClear(f) == Files(NoMeta, NoTweets)

\* get_info(): the metadata alone, None when absent or unreadable.
CheckpointGetInfo(f) ==
    IF f.meta.present /\ f.meta.readable
    THEN [found |-> TRUE, user_id |-> f.meta.user_id, cursor |-> f.meta.cursor,
          total_fetched |-> f.meta.total_fetched]
    ELSE [found |-> FALSE, user_id |-> "", cursor |-> None, total_fetched |-> 0]

\* is_valid(user_id)
CheckpointIsValid(f, uid) ==
    LET info == CheckpointGetInfo(f)
    IN info.found /\ info.user_id = uid

CurFiles == Files(metaFile, tweetsFile)

-----------------------------------------------------------------------------
(* XLikesExporter helpers (exporter.py)                                     *)

SaveCheckpointCountsBatch(f, enabled, uid, tw, cur) ==
    IF enabled THEN CheckpointSave(uid, tw, cur, Len(all_tweets)) ELSE f

\* _save_checkpoint: a save of (tweets, cursor) with total_fetched = len(tweets).
SaveCheckpoint(f, enabled, uid, tw, cur) ==
    IF enabled THEN CheckpointSave(uid, tw, cur, Len(tw)) ELSE f

\* The checkpoint_callback lambda of fetch_likes: self.tweets + new_tweets_batch.
CheckpointCallback(f, enabled, uid, held, batch, cur) ==
    IF enabled THEN SaveCheckpoint(f, enabled, uid, held \o batch, cur) ELSE f

\* fetch_likes line 67: resume and self.checkpoint and self.checkpoint.exists()
ResumeFindsCheckpoint(r, enabled, f) == r /\ enabled /\ CheckpointExists(f)

CheckpointMatchesAnyUser(data, uid) == data.found

ResumeCursorDropped(data) == None

\* fetch_likes line 71: start_cursor = checkpoint_data.get('cursor')
ResumeCursor(data) == data.cursor

\* fetch_likes line 69: checkpoint_data and checkpoint_data.get('user_id') == user_id
CheckpointMatches(data, uid) == data.found /\ data.user_id = uid

IdsOf(s) == {s[i].id : i \in 1..Len(s)}

\* fetch_likes lines 98-100: existing records first, then the new ones whose id
\* is not among the existing ids (the id set is computed once, before appending).
MergeTweets(existing, new) ==
    existing \o SelectSeq(new, LAMBDA t : t.id \notin IdsOf(existing))

\* fetch_likes line 96
MergesOnReturn(r, held) == r /\ held # <<>>

ClearsAlways(enabled, stopcb) == enabled

\* fetch_likes line 106: self.checkpoint and not stop_callback
ClearsOnReturn(enabled, stopcb) == enabled /\ ~stopcb

-----------------------------------------------------------------------------
(* XAPIClient.fetch_all_likes helpers (client.py)                           *)

EndOfStreamCursorOnly(nc, tw) == nc = None

\* line 254: not next_cursor or len(tweets) == 0
EndOfStream(nc, tw) == nc = None \/ Len(tw) = 0

PeriodicNever(n) == FALSE

\* line 250: page_count % checkpoint_interval == 0
PeriodicDue(n) == n % checkpoint_interval = 0

StopCheckpointSkipped(f, enabled, uid, held, batch, cur) == f

\* lines 226-227: checkpoint_callback(all_tweets, cursor) before the break
StopCheckpoint(f, enabled, uid, held, batch, cur) ==
    CheckpointCallback(f, enabled, uid, held, batch, cur)

PreWaitCheckpointSkipped(f, enabled, uid, held, batch, cur) == f

\* lines 266-267: checkpoint_callback(all_tweets, cursor) before time.sleep(wait_time)
PreWaitCheckpoint(f, enabled, uid, held, batch, cur) ==
    CheckpointCallback(f, enabled, uid, held, batch, cur)

NoProbe == [rl |-> NoRateLimit, now |-> 0, done |-> FALSE,
            should_wait |-> FALSE, wait_time |-> 0]

\* No Checkpoint method has been called directly.
NoSaved == [user_id |-> "", tweets |-> <<>>, cursor |-> None, total_fetched |-> 0]
NoCall == [op |-> "none", before |-> "none", saves |-> 0, saved |-> NoSaved,
           earlier |-> 0, loaded |-> NotFound, answer |-> FALSE, asked |-> ""]

\* Rate-limit headers a response can bring during a run: missing headers
\* (all 0), quota left, quota exhausted with the reset ahead.
RunRateLimits ==
    {NoRateLimit} \cup {RateLimitInfo(MaxRemaining, r, MaxReset) : r \in {1, MaxRemaining}}
RunClocks == {MaxNow}

\* Line 263: `if wait_time > 0:` guards the pre-wait save and the sleep.
SleepDueAlways(wt) == TRUE
SleepDue(wt) == wt > 0

\* Line 258: `cursor = next_cursor` hands the cursor of the response to the
\* next iteration.
NextRequestCursorKept(cur, nc) == cur
NextRequestCursorRestart(cur, nc) == None
NextRequestCursor(cur, nc) == nc

\* Line 223: `if stop_callback and stop_callback():` calls the predicate
\* once per iteration when one was supplied, and not at all otherwise.
StopEvaluationsTwice(s) == IF s THEN 2 ELSE 0
StopEvaluations(s) == IF s THEN 1 ELSE 0

\* Lines 232-236 and exporter.py line 82: neither fetch_all_likes nor
\* fetch_likes handles an exception of the page request, so the call ends
\* and the flow is back with the caller.
AfterRequestErrorRetry == "loop"
AfterRequestError == "idle"

\* exporter.py lines 81-107: the exception passes the merge and the
\* `self.checkpoint.clear()` of line 107; no handler or finally clause touches
\* the checkpoint files.
FilesAfterRequestErrorCleared(f) == CheckpointClear(f)
FilesAfterRequestError(f) == f

\* Lines 270-271: the polite delay is outside the `if should_wait()` block,
\* so it is slept whether or not the rate-limit sleep was (waited).
PoliteDelayUnlessWaited(waited) == ~waited
PoliteDelayDue(waited) == TRUE

\* Cookies of a constructed exporter, an authenticator that has fetched
\* nothing, no response body under parse.
CookieNames == {"ct0", "auth_token", "guest_id"}
ValidCookies == [n \in CookieNames |-> "set"]
OperationNames == {"Likes", "Bookmarks"}
NoAuth == [bearer_token |-> "", query_ids |-> [n \in OperationNames |-> ""],
           fetches |-> 0, calls |-> 0, op |-> "none", asked |-> "", returned |-> ""]
NoResponse == <<>>

-----------------------------------------------------------------------------
(* Initial state: a constructed XLikesExporter (self.tweets = []) in an    *)
(* output directory without checkpoint artifacts, no call in progress.     *)

Init ==
    /\ streamLen \in 1..MaxPages
    /\ emptyPage \in 0..streamLen
    /\ pageSize = RecordsPerPage
    /\ enable_checkpoints \in BOOLEAN
    /\ selfTweets = <<>>
    /\ metaFile = NoMeta
    /\ tweetsFile = NoTweets
    /\ pc = "idle"
    /\ user_id = "A"
    /\ resume = FALSE
    /\ stop_callback = FALSE
    /\ start_cursor = None
    /\ all_tweets = <<>>
    /\ cursor = None
    /\ page_count = 0
    /\ tweets = <<>>
    /\ next_cursor = None
    /\ rate_limit = NoRateLimit
    /\ wait_time = 0
    /\ stop_checks = 0
    /\ delays = 0
    /\ runs = 0
    /\ outcome = "none"
    /\ result = <<>>
    /\ prev = [user |-> "A", outcome |-> "none"]
    /\ seed = <<>>
    /\ requests = <<>>
    /\ stopped = FALSE
    /\ probe = NoProbe
    /\ last = NoCall
    /\ cookies = ValidCookies
    /\ auth = NoAuth
    /\ response = NoResponse

\* The locals of fetch_all_likes as line 217-219 set them.
EnterLoop(sc) ==
    /\ all_tweets' = <<>>
    /\ cursor' = sc
    /\ page_count' = 0
    /\ tweets' = <<>>
    /\ next_cursor' = None
    /\ rate_limit' = NoRateLimit
    /\ wait_time' = 0
    /\ stop_checks' = 0
    /\ delays' = 0

\* A new process constructs a new XLikesExporter over the same output
\* directory: self.tweets = [] and the checkpoint artifacts stay on disk.
NewExporter ==
    /\ pc = "idle"
    /\ selfTweets # <<>>
    /\ selfTweets' = <<>>
    /\ UNCHANGED <<apiVars, fileVars, pc, argVars, loopVars, runs, outcome, result, prev,
                   seed, requests, stopped, obsVars>>

\* fetch_likes lines 65-93 up to the first iteration of fetch_all_likes.
CallFetchLikes(u, r, s) ==
    /\ pc = "idle"
    /\ runs < MaxRuns
    /\ LET found == ResumeFindsCheckpoint(r, enable_checkpoints, CurFiles)
           data == CheckpointLoad(CurFiles)
           loads == found /\ CheckpointMatches(data, u)
           f == IF found /\ ~loads THEN CheckpointClear(CurFiles) ELSE CurFiles
           sc == IF loads THEN ResumeCursor(data) ELSE None
       IN /\ selfTweets' = IF loads THEN data.tweets ELSE selfTweets
          /\ seed' = IF loads THEN data.tweets ELSE <<>>
          /\ start_cursor' = sc
          /\ metaFile' = f.meta
          /\ tweetsFile' = f.tweets
          /\ EnterLoop(sc)
    /\ user_id' = u
    /\ resume' = r
    /\ stop_callback' = s
    /\ runs' = runs + 1
    /\ prev' = [user |-> user_id, outcome |-> outcome]
    /\ requests' = <<>>
    /\ stopped' = FALSE
    /\ pc' = "loop"
    /\ result' = <<>>
    /\ UNCHANGED <<apiVars, outcome, obsVars>>

\* Lines 223-228: the stop predicate returns true; checkpoint, then break.
StopRequested ==
    /\ pc = "loop"
    /\ stop_callback
    /\ LET f == StopCheckpoint(CurFiles, enable_checkpoints, user_id, selfTweets,
                               all_tweets, cursor)
       IN /\ metaFile' = f.meta
          /\ tweetsFile' = f.tweets
    /\ stopped' = TRUE
    /\ stop_checks' = stop_checks + 1
    /\ pc' = "returned"
    /\ UNCHANGED <<apiVars, selfTweets, argVars, all_tweets, cursor, page_count, tweets,
                   next_cursor, rate_limit, wait_time, delays, runs, outcome, result,
                   prev, seed, requests, obsVars>>

\* Lines 223, 231-236: no stop predicate, or it returns false; the page
\* request for the current cursor is issued and the flow blocks in it.
IssueRequest ==
    /\ pc = "loop"
    /\ stop_checks' = stop_checks + StopEvaluations(stop_callback)
    /\ requests' = Append(requests, cursor)
    /\ pc' = "fetch"
    /\ UNCHANGED <<apiVars, selfTweets, fileVars, argVars, all_tweets, cursor, page_count,
                   tweets, next_cursor, rate_limit, wait_time, delays, runs, outcome,
                   result, prev, seed, stopped, obsVars>>

\* Lines 232-271: the response arrives; everything up to the next blocking
\* point (the rate-limit sleep, the polite delay) or the break.
PageResponse(rl, now) ==
    /\ pc = "fetch"
    /\ LET i == PageOfCursor(cursor)
           tw == PageTweets(user_id, i)
           nc == PageNextCursor(i)
           all == all_tweets \o tw
           n == page_count + 1
           f1 == IF PeriodicDue(n)
                 THEN CheckpointCallback(CurFiles, enable_checkpoints, user_id,
                                         selfTweets, all, nc)
                 ELSE CurFiles
           eos == EndOfStream(nc, tw)
           waits == ~eos /\ ShouldWait(rl)
           wt == IF waits THEN GetWaitTime(rl, now) ELSE wait_time
           sleeps == waits /\ SleepDue(wt)
           f2 == IF sleeps
                 THEN PreWaitCheckpoint(f1, enable_checkpoints, user_id, selfTweets,
                                        all, nc)
                 ELSE f1
       IN /\ tweets' = tw
          /\ next_cursor' = nc
          /\ rate_limit' = rl
          /\ all_tweets' = all
          /\ page_count' = n
          /\ cursor' = IF eos THEN cursor ELSE NextRequestCursor(cursor, nc)
          /\ wait_time' = wt
          /\ metaFile' = f2.meta
          /\ tweetsFile' = f2.tweets
          /\ pc' = IF eos THEN "returned" ELSE IF sleeps THEN "rate_sleep" ELSE "delay"
    /\ UNCHANGED <<apiVars, selfTweets, argVars, stop_checks, delays, runs, outcome, result,
                   prev, seed, requests, stopped, obsVars>>

\* client.py lines 181-189: the request fails; the exception leaves
\* fetch_all_likes and fetch_likes (exporter.py line 82) without a handler.
PageError ==
    /\ pc = "fetch"
    /\ pc' = AfterRequestError
    /\ outcome' = "error"
    /\ result' = <<>>
    /\ LET f == FilesAfterRequestError(CurFiles)
       IN /\ metaFile' = f.meta
          /\ tweetsFile' = f.tweets
    /\ EnterLoop(None)
    /\ requests' = <<>>
    /\ UNCHANGED <<apiVars, selfTweets, argVars, runs, prev, seed, stopped, obsVars>>

\* Line 268: time.sleep(wait_time) returns.
RateSleepDone ==
    /\ pc = "rate_sleep"
    /\ pc' = IF PoliteDelayDue(TRUE) THEN "delay" ELSE "loop"
    /\ UNCHANGED <<apiVars, selfTweets, fileVars, argVars, loopVars, runs, outcome,
                   result, prev, seed, requests, stopped, obsVars>>

\* Line 271: time.sleep(self._request_delay) returns.
DelayDone ==
    /\ pc = "delay"
    /\ delays' = delays + 1
    /\ pc' = "loop"
    /\ UNCHANGED <<apiVars, selfTweets, fileVars, argVars, all_tweets, cursor, page_count,
                   tweets, next_cursor, rate_limit, wait_time, stop_checks, runs, outcome,
                   result, prev, seed, requests, stopped, obsVars>>

\* fetch_likes lines 95-118 after fetch_all_likes returned new_tweets.
FinishFetchLikes ==
    /\ pc = "returned"
    /\ selfTweets' = IF MergesOnReturn(resume, selfTweets)
                     THEN MergeTweets(selfTweets, all_tweets)
                     ELSE all_tweets
    /\ LET f == IF ClearsOnReturn(enable_checkpoints, stop_callback)
                THEN CheckpointClear(CurFiles) ELSE CurFiles
       IN /\ metaFile' = f.meta
          /\ tweetsFile' = f.tweets
    /\ outcome' = IF stopped THEN "stopped" ELSE "complete"
    /\ result' = selfTweets'
    /\ EnterLoop(None)
    /\ requests' = <<>>
    /\ pc' = "idle"
    /\ UNCHANGED <<apiVars, argVars, runs, prev, seed, stopped, obsVars>>

\* The process is killed inside the save() the stop makes (lines 226-227,
\* checkpoint.py lines 56-61).  Nothing of the process survives; the next
\* call is made by a new XLikesExporter (self.tweets = []) over the same
\* output directory.  outcome records the point of save() that was reached.
KilledInStopSave(point) ==
    /\ pc = "loop"
    /\ stop_callback
    /\ enable_checkpoints
    /\ LET tw == selfTweets \o all_tweets
           f == CheckpointSaveInterrupted(CurFiles, user_id, tw, cursor, Len(tw), point)
       IN /\ metaFile' = f.meta
          /\ tweetsFile' = f.tweets
    /\ selfTweets' = <<>>
    /\ outcome' = point
    /\ result' = <<>>
    /\ EnterLoop(None)
    /\ requests' = <<>>
    /\ pc' = "idle"
    /\ UNCHANGED <<apiVars, argVars, runs, prev, seed, stopped, obsVars>>

\* The process is killed inside the save() made before the rate-limit
\* sleep (lines 261-267) of the page whose response arrives.
KilledInPreWaitSave(rl, now, point) ==
    /\ pc = "fetch"
    /\ enable_checkpoints
    /\ LET i == PageOfCursor(cursor)
           tw == PageTweets(user_id, i)
           nc == PageNextCursor(i)
           all == selfTweets \o all_tweets \o tw
           f1 == IF PeriodicDue(page_count + 1)
                 THEN CheckpointCallback(CurFiles, enable_checkpoints, user_id,
                                         selfTweets, all_tweets \o tw, nc)
                 ELSE CurFiles
           f2 == CheckpointSaveInterrupted(f1, user_id, all, nc, Len(all), point)
       IN /\ ~EndOfStream(nc, tw)
          /\ ShouldWait(rl)
          /\ GetWaitTime(rl, now) > 0
          /\ metaFile' = f2.meta
          /\ tweetsFile' = f2.tweets
    /\ selfTweets' = <<>>
    /\ outcome' = point
    /\ result' = <<>>
    /\ EnterLoop(None)
    /\ requests' = <<>>
    /\ pc' = "idle"
    /\ UNCHANGED <<apiVars, argVars, runs, prev, seed, stopped, obsVars>>

Next ==
    \/ NewExporter
    \/ \E u \in Users, r \in BOOLEAN, s \in BOOLEAN : CallFetchLikes(u, r, s)
    \/ StopRequested
    \/ IssueRequest
    \/ \E rl \in RunRateLimits, now \in RunClocks : PageResponse(rl, now)
    \/ PageError
    \/ RateSleepDone
    \/ DelayDone
    \/ FinishFetchLikes

Spec == Init /\ [][Next]_vars

-----------------------------------------------------------------------------
(* The engine with checkpoints enabled, over a stream without an empty     *)
(* page, and a process that can be killed inside a save().                 *)

InitDisk == Init /\ enable_checkpoints /\ emptyPage = 0

NextDisk ==
    \/ NewExporter
    \/ \E u \in Users, r \in BOOLEAN, s \in BOOLEAN : CallFetchLikes(u, r, s)
    \/ StopRequested
    \/ IssueRequest
    \/ \E rl \in RunRateLimits, now \in RunClocks : PageResponse(rl, now)
    \/ PageError
    \/ RateSleepDone
    \/ DelayDone
    \/ FinishFetchLikes
    \/ \E point \in CrashPoints : KilledInStopSave(point)
    \/ \E rl \in RunRateLimits, now \in RunClocks, point \in CrashPoints :
          KilledInPreWaitSave(rl, now, point)

SpecDisk == InitDisk /\ [][NextDisk]_vars

-----------------------------------------------------------------------------
(* RateLimitInfo as a pure function: its inputs are drawn in the initial   *)
(* state and one step evaluates should_wait() and get_wait_time().         *)

ProbeRateLimits ==
    {RateLimitInfo(l, r, t) : l \in {0, MaxRemaining}, r \in 0..MaxRemaining,
                              t \in 0..MaxReset}

InitRate ==
    /\ streamLen = 1
    /\ emptyPage = 0
    /\ pageSize = RecordsPerPage
    /\ enable_checkpoints = TRUE
    /\ selfTweets = <<>>
    /\ metaFile = NoMeta
    /\ tweetsFile = NoTweets
    /\ pc = "probe"
    /\ user_id = "A"
    /\ resume = FALSE
    /\ stop_callback = FALSE
    /\ start_cursor = None
    /\ all_tweets = <<>>
    /\ cursor = None
    /\ page_count = 0
    /\ tweets = <<>>
    /\ next_cursor = None
    /\ rate_limit = NoRateLimit
    /\ wait_time = 0
    /\ stop_checks = 0
    /\ delays = 0
    /\ runs = 0
    /\ outcome = "none"
    /\ result = <<>>
    /\ prev = [user |-> "A", outcome |-> "none"]
    /\ seed = <<>>
    /\ requests = <<>>
    /\ stopped = FALSE
    /\ probe \in [rl : ProbeRateLimits, now : 0..MaxNow, done : {FALSE},
                  should_wait : {FALSE}, wait_time : {0}]
    /\ last = NoCall
    /\ cookies = ValidCookies
    /\ auth = NoAuth
    /\ response = NoResponse

RateProbe ==
    /\ pc = "probe"
    /\ ~probe.done
    /\ probe' = [probe EXCEPT !.done = TRUE,
                              !.should_wait = ShouldWait(probe.rl),
                              !.wait_time = GetWaitTime(probe.rl, probe.now)]
    /\ UNCHANGED <<apiVars, selfTweets, fileVars, pc, argVars, loopVars, runs, outcome,
                   result, prev, seed, requests, stopped, last, auxVars>>

NextRate == RateProbe

SpecRate == InitRate /\ [][NextRate]_vars

-----------------------------------------------------------------------------
(* The Checkpoint object alone, as examples/example_resume.py and cli.py   *)
(* use it: its methods called directly in any order, a process killed      *)
(* inside save(), and one artifact deleted from outside.                   *)

\* Everything of the exporter and the client as before the first call.
AtRest ==
    /\ user_id = "A"
    /\ resume = FALSE
    /\ stop_callback = FALSE
    /\ start_cursor = None
    /\ all_tweets = <<>>
    /\ cursor = None
    /\ page_count = 0
    /\ tweets = <<>>
    /\ next_cursor = None
    /\ rate_limit = NoRateLimit
    /\ wait_time = 0
    /\ stop_checks = 0
    /\ delays = 0
    /\ runs = 0
    /\ outcome = "none"
    /\ result = <<>>
    /\ prev = [user |-> "A", outcome |-> "none"]
    /\ seed = <<>>
    /\ requests = <<>>
    /\ stopped = FALSE
    /\ probe = NoProbe

StoreRecords == [j \in 1..RecordsPerPage |-> Tweet("A", 1, j)]

\* Arguments of save(): the contiguous sublists of StoreRecords, a cursor
\* absent or present, a total_fetched independent of the list.
StoreLists ==
    {SubSeq(StoreRecords, a, b) : a \in 1..RecordsPerPage, b \in 0..RecordsPerPage}
StoreCursors == {None, MaxPages}
StoreTotals == {0, RecordsPerPage}

InitStore ==
    /\ streamLen = 1
    /\ emptyPage = 0
    /\ pageSize = RecordsPerPage
    /\ enable_checkpoints = TRUE
    /\ selfTweets = <<>>
    /\ metaFile = NoMeta
    /\ tweetsFile = NoTweets
    /\ pc = "store"
    /\ AtRest
    /\ last = NoCall
    /\ cookies = ValidCookies
    /\ auth = NoAuth
    /\ response = NoResponse

StoreFrame ==
    UNCHANGED <<apiVars, selfTweets, pc, argVars, loopVars, runs, outcome, result,
                prev, seed, requests, stopped, probe, auxVars>>

\* save(uid, tw, cur, total) runs to completion.
StoreSave(uid, tw, cur, total) ==
    /\ pc = "store"
    /\ last.saves < MaxSaves
    /\ LET f == CheckpointSave(uid, tw, cur, total)
       IN /\ metaFile' = f.meta
          /\ tweetsFile' = f.tweets
    /\ last' = [NoCall EXCEPT !.op = "save", !.before = last.op,
                              !.saves = last.saves + 1,
                              !.saved = [user_id |-> uid, tweets |-> tw, cursor |-> cur,
                                         total_fetched |-> total],
                              !.earlier = Len(last.saved.tweets)]
    /\ StoreFrame

\* save(uid, tw, cur, total) by a process that is killed at point.
StoreSaveKilled(uid, tw, cur, total, point) ==
    /\ pc = "store"
    /\ LET f == CheckpointSaveInterrupted(CurFiles, uid, tw, cur, total, point)
       IN /\ metaFile' = f.meta
          /\ tweetsFile' = f.tweets
    /\ last' = [NoCall EXCEPT !.op = "killed", !.before = last.op]
    /\ StoreFrame

\* One artifact is removed from outside the program.
ExternalDelete(which) ==
    /\ pc = "store"
    /\ IF which = "meta"
       THEN metaFile.present /\ metaFile' = NoMeta /\ tweetsFile' = tweetsFile
       ELSE tweetsFile.present /\ tweetsFile' = NoTweets /\ metaFile' = metaFile
    /\ last' = [NoCall EXCEPT !.op = "deleted", !.before = last.op]
    /\ StoreFrame

\* clear()
StoreClear ==
    /\ pc = "store"
    /\ LET f == CheckpointClear(CurFiles)
       IN /\ metaFile' = f.meta
          /\ tweetsFile' = f.tweets
    /\ last' = [NoCall EXCEPT !.op = "clear", !.before = last.op]
    /\ StoreFrame

\* load()
StoreLoad ==
    /\ pc = "store"
    /\ last' = [last EXCEPT !.op = "load", !.before = last.op,
                            !.loaded = CheckpointLoad(CurFiles),
                            !.answer = FALSE, !.asked = ""]
    /\ UNCHANGED fileVars
    /\ StoreFrame

\* exists()
StoreExists ==
    /\ pc = "store"
    /\ last' = [last EXCEPT !.op = "exists", !.before = last.op,
                            !.loaded = NotFound,
                            !.answer = CheckpointExists(CurFiles), !.asked = ""]
    /\ UNCHANGED fileVars
    /\ StoreFrame

\* is_valid(uid)
StoreIsValid(uid) ==
    /\ pc = "store"
    /\ last' = [last EXCEPT !.op = "is_valid", !.before = last.op,
                            !.loaded = NotFound,
                            !.answer = CheckpointIsValid(CurFiles, uid), !.asked = uid]
    /\ UNCHANGED fileVars
    /\ StoreFrame

NextStore ==
    \/ \E uid \in Users, tw \in StoreLists, cur \in StoreCursors, total \in StoreTotals :
          StoreSave(uid, tw, cur, total)
    \/ \E uid \in Users, tw \in StoreLists, cur \in StoreCursors, total \in StoreTotals,
          point \in CrashPoints : StoreSaveKilled(uid, tw, cur, total, point)
    \/ \E which \in {"meta", "payload"} : ExternalDelete(which)
    \/ StoreClear
    \/ StoreLoad
    \/ StoreExists
    \/ \E uid \in Users : StoreIsValid(uid)

SpecStore == InitStore /\ [][NextStore]_vars

-----------------------------------------------------------------------------
(* A long stream: one user whose likes fill checkpoint_interval pages or   *)
(* more, so that the periodic save of fetch_all_likes is reached.          *)

InitLong ==
    /\ streamLen \in checkpoint_interval..LongPages
    /\ emptyPage \in {0, checkpoint_interval}
    /\ pageSize = RecordsPerPage
    /\ enable_checkpoints = TRUE
    /\ selfTweets = <<>>
    /\ metaFile = NoMeta
    /\ tweetsFile = NoTweets
    /\ pc = "idle"
    /\ AtRest
    /\ last = NoCall
    /\ cookies = ValidCookies
    /\ auth = NoAuth
    /\ response = NoResponse

NextLong ==
    \/ \E r \in BOOLEAN, s \in BOOLEAN : runs < LongRuns /\ CallFetchLikes("A", r, s)
    \/ StopRequested
    \/ IssueRequest
    \/ \E rl \in RunRateLimits, now \in RunClocks : PageResponse(rl, now)
    \/ RateSleepDone
    \/ DelayDone
    \/ FinishFetchLikes

SpecLong == InitLong /\ [][NextLong]_vars

-----------------------------------------------------------------------------
(* The resume merge of fetch_likes (lines 95-103) as a function of the     *)
(* seeded self.tweets and of the list fetch_all_likes returned: the call   *)
(* has loaded its seed from the checkpoint, and the API has answered with  *)
(* any pages, overlapping the seed or each other.                          *)

MergeRecords == {Tweet("A", 1, j) : j \in 1..(RecordsPerPage + 1)}

MergeBatches == UNION {[1..n -> MergeRecords] : n \in 0..MaxBatch}

MergeSeeds ==
    {sd \in UNION {[1..n -> MergeRecords] : n \in 0..RecordsPerPage} :
        \A i, j \in 1..Len(sd) : sd[i].id = sd[j].id => i = j}

InitMerge ==
    /\ streamLen = 1
    /\ emptyPage = 0
    /\ pageSize = RecordsPerPage
    /\ enable_checkpoints = TRUE
    /\ selfTweets \in MergeSeeds
    /\ seed = selfTweets
    /\ metaFile = NoMeta
    /\ tweetsFile = NoTweets
    /\ pc = "returned"
    /\ user_id = "A"
    /\ resume = TRUE
    /\ stop_callback = FALSE
    /\ start_cursor = None
    /\ all_tweets \in MergeBatches
    /\ cursor = None
    /\ page_count = 0
    /\ tweets = <<>>
    /\ next_cursor = None
    /\ rate_limit = NoRateLimit
    /\ wait_time = 0
    /\ stop_checks = 0
    /\ delays = 0
    /\ runs = 1
    /\ outcome = "none"
    /\ result = <<>>
    /\ prev = [user |-> "A", outcome |-> "stopped"]
    /\ requests = <<>>
    /\ stopped = FALSE
    /\ probe = NoProbe
    /\ last = NoCall
    /\ cookies = ValidCookies
    /\ auth = NoAuth
    /\ response = NoResponse

NextMerge == FinishFetchLikes

SpecMerge == InitMerge /\ [][NextMerge]_vars

-----------------------------------------------------------------------------
(* Construction of the exporter (exporter.py lines 18-42) from a cookie    *)
(* file: each cookie name is absent from the file, present with an empty   *)
(* value, or present with a value.  A constructed exporter runs one call.  *)

CookieStates == {"absent", "empty", "set"}

\* cookies.py lines 55-63: validate() tests the presence of the two names.
CookieManagerValidateCsrfOnly(c) == c["ct0"] # "absent"
CookieManagerValidate(c) == \A n \in {"ct0", "auth_token"} : c[n] # "absent"

InitCreds ==
    /\ AtRest
    /\ streamLen \in 1..MaxPages
    /\ emptyPage = 0
    /\ pageSize = RecordsPerPage
    /\ enable_checkpoints = TRUE
    /\ metaFile = NoMeta
    /\ tweetsFile = NoTweets
    /\ selfTweets = <<>>
    /\ pc = "new"
    /\ last = NoCall
    /\ cookies \in [CookieNames -> CookieStates]
    /\ auth = NoAuth
    /\ response = NoResponse

\* XLikesExporter.__init__: the components are built, then validate()
\* decides between `raise Exception("Invalid cookies...")` and self.tweets = [].
NewXLikesExporter ==
    /\ pc = "new"
    /\ pc' = IF CookieManagerValidate(cookies) THEN "idle" ELSE "refused"
    /\ selfTweets' = <<>>
    /\ UNCHANGED <<apiVars, fileVars, argVars, loopVars, runs, outcome, result, prev,
                   seed, requests, stopped, obsVars>>

NextCreds ==
    \/ NewXLikesExporter
    \/ \E r \in BOOLEAN, s \in BOOLEAN : runs < CredRuns /\ CallFetchLikes("A", r, s)
    \/ StopRequested
    \/ IssueRequest
    \/ \E rl \in RunRateLimits, now \in RunClocks : PageResponse(rl, now)
    \/ PageError
    \/ RateSleepDone
    \/ DelayDone
    \/ FinishFetchLikes

SpecCreds == InitCreds /\ [][NextCreds]_vars

-----------------------------------------------------------------------------
(* XAuthenticator (auth.py): one authenticator, its two caches, and the    *)
(* network as the outcome of each extraction.  auth.fetches counts the     *)
(* requests.get calls made; "" stands for None and for a missing key.      *)

Tokens == {"Bearer 1", "Bearer 2"}
QueryIds == {"qid1", "qid2"}

\* An extraction makes up to two requests.get calls: the home page (lines
\* 40-46, 93-99), then the main script (lines 58-60, 110-112).  It raises
\* when a fetch fails or a pattern does not match (value ""), and yields
\* the matched value otherwise.
Extractions(values) ==
    {[fetches |-> n, value |-> ""] : n \in 1..2}
    \cup {[fetches |-> 2, value |-> v] : v \in values}

\* Line 35: `if self._bearer_token:`.
BearerCachedNever(a) == FALSE
BearerCached(a) == a.bearer_token # ""

\* Line 85: `if operation_name in self._query_ids:`.
QueryIdCached(a, name) == a.query_ids[name] # ""

\* Lines 69-73 and 123-127: the value is stored only on the path that
\* returns it; the except clause re-raises and stores nothing.
Stored(old, x) == IF x.value = "" THEN old ELSE x.value

Returned(x) == IF x.value = "" THEN "raised" ELSE x.value

InitAuth ==
    /\ AtRest
    /\ streamLen = 1
    /\ emptyPage = 0
    /\ pageSize = RecordsPerPage
    /\ enable_checkpoints = TRUE
    /\ selfTweets = <<>>
    /\ metaFile = NoMeta
    /\ tweetsFile = NoTweets
    /\ pc = "auth"
    /\ last = NoCall
    /\ cookies = ValidCookies
    /\ auth = NoAuth
    /\ response = NoResponse

AuthFrame ==
    UNCHANGED <<apiVars, selfTweets, fileVars, pc, argVars, loopVars, runs, outcome,
                result, prev, seed, requests, stopped, probe, last, cookies, response>>

\* get_bearer_token(), lines 25-73.
GetBearerToken(x) ==
    /\ pc = "auth"
    /\ auth.calls < MaxCalls
    /\ auth' = IF BearerCached(auth)
               THEN [auth EXCEPT !.calls = @ + 1, !.op = "get_bearer_token",
                                 !.asked = "", !.returned = auth.bearer_token]
               ELSE [auth EXCEPT !.calls = @ + 1, !.op = "get_bearer_token",
                                 !.asked = "", !.returned = Returned(x),
                                 !.fetches = @ + x.fetches,
                                 !.bearer_token = Stored(@, x)]
    /\ AuthFrame

\* get_query_id(operation_name), lines 75-127.
GetQueryId(name, x) ==
    /\ pc = "auth"
    /\ auth.calls < MaxCalls
    /\ auth' = IF QueryIdCached(auth, name)
               THEN [auth EXCEPT !.calls = @ + 1, !.op = "get_query_id",
                                 !.asked = name, !.returned = auth.query_ids[name]]
               ELSE [auth EXCEPT !.calls = @ + 1, !.op = "get_query_id",
                                 !.asked = name, !.returned = Returned(x),
                                 !.fetches = @ + x.fetches,
                                 !.query_ids[name] = Stored(@, x)]
    /\ AuthFrame

NextAuth ==
    \/ \E x \in Extractions(Tokens) : GetBearerToken(x)
    \/ \E name \in OperationNames, x \in Extractions(QueryIds) : GetQueryId(name, x)

SpecAuth == InitAuth /\ [][NextAuth]_vars

-----------------------------------------------------------------------------
(* Pagination at the page size the client asks for (count = 20): one user  *)
(* whose stream has up to ChainPages pages, the last of which may be the   *)
(* empty page without a cursor.                                            *)

InitChain ==
    /\ AtRest
    /\ streamLen \in 1..ChainPages
    /\ emptyPage \in {0, streamLen}
    /\ pageSize = count
    /\ enable_checkpoints = TRUE
    /\ selfTweets = <<>>
    /\ metaFile = NoMeta
    /\ tweetsFile = NoTweets
    /\ pc = "idle"
    /\ last = NoCall
    /\ cookies = ValidCookies
    /\ auth = NoAuth
    /\ response = NoResponse

NextChain ==
    \/ \E r \in BOOLEAN, s \in BOOLEAN : runs < ChainRuns /\ CallFetchLikes("A", r, s)
    \/ StopRequested
    \/ IssueRequest
    \/ \E rl \in RunRateLimits, now \in RunClocks : PageResponse(rl, now)
    \/ PageError
    \/ RateSleepDone
    \/ DelayDone
    \/ FinishFetchLikes

SpecChain == InitChain /\ [][NextChain]_vars

-----------------------------------------------------------------------------
(* Parsing of one response body (client.py lines 171-179, 276-412).  The   *)
(* body is the entry list of its TimelineAddEntries instruction; an entry  *)
(* is one of                                                               *)
(*   tweet         a timeline item whose result _parse_tweet turns into a  *)
(*                 Tweet                                                   *)
(*   bad_tweet     a timeline item with a legacy part on which             *)
(*                 _parse_tweet raises                                     *)
(*   no_legacy     a timeline item without result or legacy part           *)
(*   broken_item   a timeline item whose itemContent or tweet_results is   *)
(*                 null: the .get chain of _extract_tweets raises on it    *)
(*   broken_entry  an entry whose content is null: the .get chains of      *)
(*                 _extract_tweets and of _extract_cursor raise on it      *)
(*   cursor_bottom, cursor_top   cursor entries; the value of the cursor   *)
(*                 entry at position i is i                                *)

EntryKinds ==
    {"tweet", "bad_tweet", "no_legacy", "broken_item", "broken_entry",
     "cursor_bottom", "cursor_top"}

Responses == UNION {[1..n -> EntryKinds] : n \in 0..MaxEntries}

\* _parse_tweet, lines 313-385: the Tweet, or None after the except clause.
ParseTweet(kind, i) == IF kind = "tweet" THEN <<Tweet("A", 1, i)>> ELSE <<>>

RECURSIVE ExtractTweetsFrom(_, _)
\* _extract_tweets, lines 293-311, from entry i on: an exception raised by
\* the loop's own navigation is caught outside the loop (line 308), which
\* ends the loop with the tweets appended so far.
ExtractTweetsFrom(entries, i) ==
    IF i > Len(entries) THEN <<>>
    ELSE IF entries[i] \in {"broken_item", "broken_entry"} THEN <<>>
    ELSE IF entries[i] \in {"tweet", "bad_tweet"}
         THEN ParseTweet(entries[i], i) \o ExtractTweetsFrom(entries, i + 1)
    ELSE ExtractTweetsFrom(entries, i + 1)

ExtractTweets(entries) == ExtractTweetsFrom(entries, 1)

RECURSIVE ExtractCursorFrom(_, _)
\* _extract_cursor, lines 401-412, from entry i on: the value of the first
\* Bottom cursor entry; None when there is none or when an exception was
\* caught before one was found.
ExtractCursorFrom(entries, i) ==
    IF i > Len(entries) THEN None
    ELSE IF entries[i] = "broken_entry" THEN None
    ELSE IF entries[i] = "cursor_bottom" THEN i
    ELSE ExtractCursorFrom(entries, i + 1)

ExtractCursor(entries) == ExtractCursorFrom(entries, 1)

InitParse ==
    /\ AtRest
    /\ streamLen = 1
    /\ emptyPage = 0
    /\ pageSize = RecordsPerPage
    /\ enable_checkpoints = TRUE
    /\ selfTweets = <<>>
    /\ metaFile = NoMeta
    /\ tweetsFile = NoTweets
    /\ pc = "parse"
    /\ last = NoCall
    /\ cookies = ValidCookies
    /\ auth = NoAuth
    /\ response \in Responses

\* fetch_likes lines 171-179: data = response.json(), the two extractions,
\* and the return of their results.
ParseResponse ==
    /\ pc = "parse"
    /\ tweets' = ExtractTweets(response)
    /\ next_cursor' = ExtractCursor(response)
    /\ pc' = "parsed"
    /\ UNCHANGED <<apiVars, selfTweets, fileVars, argVars, all_tweets, cursor, page_count,
                   rate_limit, wait_time, stop_checks, delays, runs, outcome, result,
                   prev, seed, requests, stopped, obsVars>>

NextParse == ParseResponse

SpecParse == InitParse /\ [][NextParse]_vars

-----------------------------------------------------------------------------
(* The engine as a sequential program that keeps running: the loop body    *)
(* is executed when the flow is at its top, every request answers and      *)
(* every sleep returns.  The stream is finite (streamLen pages); the stop  *)
(* predicate may return true at any check.                                 *)

NextLive ==
    \/ NewExporter
    \/ \E r \in BOOLEAN, s \in BOOLEAN : runs < LiveRuns /\ CallFetchLikes("A", r, s)
    \/ StopRequested
    \/ IssueRequest
    \/ \E rl \in RunRateLimits, now \in RunClocks : PageResponse(rl, now)
    \/ RateSleepDone
    \/ DelayDone
    \/ FinishFetchLikes

\* client.py line 221-271: one thread runs the loop; requests.get (line 153)
\* and time.sleep (lines 268, 271) are taken to return.
Fairness ==
    /\ WF_vars(StopRequested \/ IssueRequest)
    /\ WF_vars(\E rl \in RunRateLimits, now \in RunClocks : PageResponse(rl, now))
    /\ WF_vars(RateSleepDone)
    /\ WF_vars(DelayDone)

SpecLive == Init /\ [][NextLive]_vars /\ Fairness

-----------------------------------------------------------------------------
(* An exporter constructed with enable_checkpoints=False (self.checkpoint  *)
(* is None) over an output directory in which an earlier process may have  *)
(* left a checkpoint of user A.                                            *)

InitOff ==
    /\ AtRest
    /\ streamLen \in 1..MaxPages
    /\ emptyPage = 0
    /\ pageSize = RecordsPerPage
    /\ enable_checkpoints = FALSE
    /\ selfTweets = <<>>
    /\ \E f \in {Files(NoMeta, NoTweets)}
                \cup {CheckpointSave("A", StoreRecords, c, Len(StoreRecords)) :
                          c \in StoreCursors} :
           /\ metaFile = f.meta
           /\ tweetsFile = f.tweets
    /\ pc = "idle"
    /\ last = NoCall
    /\ cookies = ValidCookies
    /\ auth = NoAuth
    /\ response = NoResponse

SpecOff == InitOff /\ [][Next]_vars

-----------------------------------------------------------------------------
(* The engine under every kind of rate-limit headers: missing (all 0),     *)
(* quota left, quota exhausted with the reset ahead, quota exhausted with  *)
(* the reset at the clock, WaitBuffer seconds before it, or long passed.   *)

WaitRateLimits ==
    RunRateLimits
    \cup {RateLimitInfo(MaxRemaining, 0, t) : t \in {1, MaxNow - WaitBuffer, MaxNow}}

NextWait ==
    \/ NewExporter
    \/ \E r \in BOOLEAN, s \in BOOLEAN : runs < WaitRuns /\ CallFetchLikes("A", r, s)
    \/ StopRequested
    \/ IssueRequest
    \/ \E rl \in WaitRateLimits, now \in RunClocks : PageResponse(rl, now)
    \/ PageError
    \/ RateSleepDone
    \/ DelayDone
    \/ FinishFetchLikes

SpecWait == Init /\ [][NextWait]_vars

-----------------------------------------------------------------------------
(* Vocabulary of the properties                                             *)

RECURSIVE FetchFrom(_, _)
\* The list one uninterrupted fetch_all_likes returns when started at page i.
FetchFrom(u, i) ==
    LET tw == PageTweets(u, i)
        nc == PageNextCursor(i)
    IN IF EndOfStream(nc, tw) THEN tw ELSE tw \o FetchFrom(u, nc)

Uninterrupted(u) == FetchFrom(u, 1)

NoDuplicateIds(s) == \A i, j \in 1..Len(s) : s[i].id = s[j].id => i = j

IsSuffix(t, s) ==
    /\ Len(t) <= Len(s)
    /\ \A i \in 1..Len(t) : t[i] = s[Len(s) - Len(t) + i]

\* The checkpoint on disk is a completed save of (held records + batch, cur)
\* for the user of the current call.
CheckpointHolds(tw, cur) ==
    /\ CheckpointExists(CurFiles)
    /\ metaFile.user_id = user_id
    /\ metaFile.cursor = cur
    /\ metaFile.total_fetched = Len(tw)
    /\ tweetsFile.tweets = tw

\* The call that just finished was a resume for the user of the call before it.
ResumedAfter(how) ==
    /\ pc = "idle"
    /\ outcome = "complete"
    /\ resume
    /\ prev.outcome = how
    /\ prev.user = user_id

SameIdsAsUninterrupted ==
    /\ IdsOf(result) = IdsOf(Uninterrupted(user_id))
    /\ NoDuplicateIds(result)

-----------------------------------------------------------------------------
(* C1: Idempotent resume after a stop.  When a fetch_likes call halted by  *)
(* the stop predicate is followed by fetch_likes(user_id, resume=True) for *)
(* the same user that runs to end-of-stream, the returned list has the id  *)
(* set of one uninterrupted run and holds no id twice.                     *)
C1_IdempotentResumeAfterStop ==
    ResumedAfter("stopped") => SameIdsAsUninterrupted

C3_SafeRetryAfterError ==
    ResumedAfter("error") => SameIdsAsUninterrupted

(* C4: Stop-signal safety.  When the stop predicate returns true before    *)
(* page k, the checkpoint left by fetch_all_likes has the cursor of the    *)
(* request for page k and, as records, the seed loaded on resume followed  *)
(* by pages 1..k-1 of this run.                                            *)
C4_StopCheckpointIsSeedPlusPages ==
    (enable_checkpoints /\ pc = "returned" /\ stopped)
    => CheckpointHolds(seed \o all_tweets, cursor)

(* C5: Clear on completion.  After a fetch_likes call that reached         *)
(* end-of-stream without the stop signal ever being set, with or without   *)
(* a stop predicate supplied, no checkpoint exists.                        *)
C5_ClearOnCompletion ==
    (enable_checkpoints /\ pc = "idle" /\ outcome = "complete")
    => ~CheckpointExists(CurFiles)

(* C6: A run halted by the stop signal leaves its checkpoint in place:     *)
(* the step in which fetch_likes returns after a stop changes neither      *)
(* artifact, and the checkpoint that exists afterwards is the one the      *)
(* stop wrote (accumulated records, current cursor).                       *)
C6_StoppedRunKeepsCheckpoint ==
    [][ (enable_checkpoints /\ pc = "returned" /\ stopped)
        => ( /\ CheckpointHolds(selfTweets \o all_tweets, cursor)
             /\ metaFile' = metaFile
             /\ tweetsFile' = tweetsFile
             /\ CheckpointExists(Files(metaFile', tweetsFile')) ) ]_vars

C6_Witness ==
    /\ enable_checkpoints
    /\ pc = "idle"
    /\ outcome = "stopped"
    /\ result # <<>>
    /\ CheckpointExists(CurFiles)
    /\ metaFile.user_id = user_id

(* C7: Cross-user guard.  A fetch_likes(user_id=B, resume=True) that finds *)
(* a checkpoint saved for another user seeds no records from it, starts    *)
(* with no cursor, proceeds into pagination (no error), and its first      *)
(* request carries no cursor.                                              *)
C7_CrossUserGuard ==
    /\ [][ ( /\ pc = "idle"
             /\ pc' # "idle"
             /\ resume'
             /\ enable_checkpoints
             /\ CheckpointExists(CurFiles)
             /\ metaFile.user_id # user_id' )
           => ( /\ pc' = "loop"
                /\ seed' = <<>>
                /\ selfTweets' = selfTweets
                /\ start_cursor' = None
                /\ cursor' = None ) ]_vars
    /\ [](requests # <<>> => requests[1] = start_cursor)

C7_Witness ==
    /\ enable_checkpoints
    /\ pc = "fetch"
    /\ resume
    /\ prev.outcome = "stopped"
    /\ prev.user # user_id
    /\ page_count = 0
    /\ requests = <<None>>
    /\ seed = <<>>
    /\ ~metaFile.present

(* C8: End-of-stream detection.  Once a page response has no next cursor   *)
(* or parses to zero records, fetch_all_likes has returned: it is in no    *)
(* request, rate-limit sleep or polite delay, and it has issued exactly    *)
(* one request per page received.                                          *)
C8_EndOfStreamStops ==
    (page_count > 0 /\ (next_cursor = None \/ Len(tweets) = 0))
    => (pc = "returned" /\ ~stopped /\ Len(requests) = page_count)

C8_Witness ==
    /\ pc = "returned"
    /\ page_count > 0
    /\ Len(tweets) = 0
    /\ next_cursor # None
    /\ Len(requests) = page_count

(* C9: Checkpoint before rate-limit wait.  Whenever fetch_all_likes is in  *)
(* the rate-limit sleep, the checkpoint on disk is the save of all records *)
(* accumulated so far with the cursor of the next page, and no request has *)
(* been issued since the page that triggered the wait.                     *)
C9_CheckpointBeforeRateLimitWait ==
    (enable_checkpoints /\ pc = "rate_sleep")
    => ( /\ CheckpointHolds(selfTweets \o all_tweets, cursor)
         /\ cursor = next_cursor
         /\ cursor # None
         /\ Len(requests) = page_count
         /\ wait_time > 0 )

C9_Witness ==
    /\ enable_checkpoints
    /\ pc = "rate_sleep"
    /\ all_tweets # <<>>
    /\ wait_time = 35
    /\ tweetsFile.tweets = all_tweets

(* C10: Rate limiter policy.  should_wait() is true exactly when           *)
(* remaining <= 1; get_wait_time() is max(0, reset - now + 5), never       *)
(* negative; remaining = 1 and reset = now + 30 give a wait of 35.         *)
C10_RateLimiterPolicy ==
    probe.done =>
        LET rl == probe.rl
            due == rl.reset - probe.now + 5
        IN /\ probe.should_wait <=> (rl.remaining < 2)
           /\ probe.wait_time >= 0
           /\ probe.wait_time >= due
           /\ probe.wait_time \in {0, due}
           /\ (rl.remaining = 1 /\ rl.reset = probe.now + 30)
                => (probe.should_wait /\ probe.wait_time = 35)

C10_Witness ==
    /\ probe.done
    /\ probe.rl.remaining = 1
    /\ probe.rl.reset = probe.now + 30
    /\ probe.should_wait
    /\ probe.wait_time = 35

-----------------------------------------------------------------------------
(* Vocabulary of the properties of the checkpoint store                     *)

\* What load() returns for the arguments of a completed save().
LoadedFrom(sv) ==
    [found |-> TRUE, user_id |-> sv.user_id, cursor |-> sv.cursor,
     total_fetched |-> sv.total_fetched, tweets |-> sv.tweets]

\* A present artifact that json.load / pickle.load cannot parse.
Unreadable(f) ==
    \/ f.meta.present /\ ~f.meta.readable
    \/ f.tweets.present /\ ~f.tweets.readable

\* The step is a fetch_likes(user_id', resume=True) call with checkpoints on.
ResumeCallStep ==
    /\ pc = "idle"
    /\ pc' # "idle"
    /\ resume'
    /\ enable_checkpoints

RECURSIVE AppendNew(_, _)
\* acc followed by the records of new, in order, each appended only if its
\* id is not yet present in the list built so far.
AppendNew(acc, new) ==
    IF new = <<>> THEN acc
    ELSE AppendNew(IF Head(new).id \in IdsOf(acc) THEN acc ELSE Append(acc, Head(new)),
                   Tail(new))

(* C11: Checkpoint round-trip.  A load() that directly follows a completed *)
(* save(user_id, tweets, cursor, total_fetched) returns a snapshot with    *)
(* that user_id, cursor (absent included) and total_fetched, and with the  *)
(* saved record list in the same order.                                    *)
C11_SaveLoadRoundTrip ==
    (last.op = "load" /\ last.before = "save")
    => last.loaded = LoadedFrom(last.saved)

C11_Witness ==
    /\ last.op = "load"
    /\ last.before = "save"
    /\ last.saved.cursor = None
    /\ Len(last.saved.tweets) = RecordsPerPage
    /\ last.saved.total_fetched # Len(last.saved.tweets)
    /\ last.saved.user_id = "B"
    /\ last.loaded.found
    /\ last.loaded.tweets = last.saved.tweets

(* C12: A crash between the two checkpoint writes is benign.  When a       *)
(* fetch_likes call was killed in save() after the metadata was written    *)
(* and before the payload was written, and fetch_likes(resume=True) for    *)
(* the same user then runs to end-of-stream, the returned list holds every *)
(* record of the uninterrupted run.                                        *)
C12_CrashBetweenWritesIsBenign ==
    ( /\ pc = "idle"
      /\ outcome = "complete"
      /\ resume
      /\ prev.outcome = "meta_written"
      /\ prev.user = user_id )
    => IdsOf(Uninterrupted(user_id)) \subseteq IdsOf(result)

(* C13: Periodic checkpoint.  From the response of every page whose        *)
(* ordinal within the current fetch_all_likes call is a multiple of        *)
(* checkpoint_interval, until the next response or the return, the         *)
(* checkpoint on disk contains all pages fetched so far and carries the    *)
(* next cursor that page returned; whatever the rate-limit headers, the    *)
(* stop predicate, and whether or not that page ended the stream.          *)
C13_PeriodicCheckpoint ==
    ( /\ enable_checkpoints
      /\ pc # "idle"
      /\ page_count > 0
      /\ page_count % checkpoint_interval = 0 )
    => ( /\ CheckpointExists(CurFiles)
         /\ metaFile.user_id = user_id
         /\ metaFile.cursor = next_cursor
         /\ metaFile.total_fetched = Len(tweetsFile.tweets)
         /\ IsSuffix(all_tweets, tweetsFile.tweets) )

C13_Witness ==
    /\ pc = "returned"
    /\ ~stopped
    /\ page_count = checkpoint_interval
    /\ Len(tweets) = 0
    /\ next_cursor # None
    /\ CheckpointExists(CurFiles)
    /\ metaFile.cursor = next_cursor
    /\ tweetsFile.tweets = all_tweets
    /\ Len(all_tweets) = RecordsPerPage * (checkpoint_interval - 1)

(* C14: The resume merge deduplicates by id.  When fetch_likes has seeded  *)
(* S from the checkpoint, the list it returns is S unchanged and in order, *)
(* followed by the newly fetched records in fetch order, each appended     *)
(* only if its id is not already present; it holds no id twice when S      *)
(* holds none twice, even when the fetched pages overlap S or each other.  *)
C14_MergeDeduplicatesById ==
    [][ (pc = "returned" /\ resume /\ selfTweets = seed)
        => ( /\ result' = AppendNew(seed, all_tweets)
             /\ NoDuplicateIds(seed) => NoDuplicateIds(result') ) ]_vars

(* C15: Resume starts where the checkpoint left off.  A fetch_likes call   *)
(* with resume=True that finds a checkpoint of the same user sets          *)
(* self.tweets to exactly the records of the snapshot and starts           *)
(* pagination at the cursor of the snapshot, and the first page request    *)
(* of every call carries the start cursor.                                 *)
C15_ResumeStartsAtCheckpoint ==
    /\ [][ ( /\ ResumeCallStep
             /\ CheckpointExists(CurFiles)
             /\ metaFile.user_id = user_id' )
           => ( /\ selfTweets' = tweetsFile.tweets
                /\ seed' = tweetsFile.tweets
                /\ start_cursor' = metaFile.cursor
                /\ cursor' = metaFile.cursor
                /\ all_tweets' = <<>> ) ]_vars
    /\ []((pc = "fetch" /\ page_count = 0) => requests = <<start_cursor>>)

C15_Witness ==
    /\ pc = "fetch"
    /\ page_count = 0
    /\ resume
    /\ seed # <<>>
    /\ selfTweets = seed
    /\ start_cursor # None
    /\ requests = <<start_cursor>>

(* C16: A different-user checkpoint is discarded.  A fetch_likes(B,        *)
(* resume=True) that finds a checkpoint stored for another user leaves     *)
(* both artifacts absent before any page request is issued; and            *)
(* is_valid(u) is true exactly when readable metadata is present whose     *)
(* stored user_id is u.                                                    *)
C16_OtherUserCheckpointDiscarded ==
    /\ [][ ( /\ ResumeCallStep
             /\ CheckpointExists(CurFiles)
             /\ ~Unreadable(CurFiles)
             /\ metaFile.user_id # user_id' )
           => ( /\ pc' = "loop"
                /\ metaFile' = NoMeta
                /\ tweetsFile' = NoTweets
                /\ requests' = <<>> ) ]_vars
    /\ [](\A u \in Users :
            CheckpointIsValid(CurFiles, u)
            <=> (metaFile.present /\ metaFile.readable /\ metaFile.user_id = u))

C16_Witness ==
    /\ pc = "loop"
    /\ page_count = 0
    /\ requests = <<>>
    /\ resume
    /\ prev.outcome = "stopped"
    /\ prev.user # user_id
    /\ ~metaFile.present
    /\ ~tweetsFile.present
    /\ ~CheckpointIsValid(CurFiles, prev.user)

(* C17: exists() answers true if and only if both the metadata artifact    *)
(* and the record-payload artifact are present, after any sequence of      *)
(* save, save killed part-way, clear and outside deletion of one artifact. *)
C17_ExistsIffBothPresent ==
    last.op = "exists" => (last.answer <=> (metaFile.present /\ tweetsFile.present))

C17_Witness ==
    /\ last.op = "exists"
    /\ last.before = "killed"
    /\ metaFile.present
    /\ ~tweetsFile.present
    /\ ~last.answer

(* C18: clear() from any state leaves both artifacts absent, so that       *)
(* exists() is false and load() returns absent; a clear() directly after   *)
(* a clear() changes nothing.                                              *)
C18_ClearFromAnyState ==
    /\ [](last.op = "clear"
          => ( /\ ~metaFile.present
               /\ ~tweetsFile.present
               /\ ~CheckpointExists(CurFiles)
               /\ ~CheckpointLoad(CurFiles).found ))
    /\ [][ (last.op = "clear" /\ last'.op = "clear")
           => (metaFile' = metaFile /\ tweetsFile' = tweetsFile) ]_vars

C18_Witness ==
    /\ last.op = "clear"
    /\ last.before = "deleted"
    /\ ~metaFile.present
    /\ ~tweetsFile.present

(* C19: Saves overwrite, never append.  After one or more completed        *)
(* save() calls with nothing but reads since, load() returns exactly the   *)
(* user_id, cursor, total_fetched and record list of the most recent       *)
(* save.                                                                   *)
C19_SavesOverwrite ==
    (last.op = "load" /\ last.saves >= 1)
    => last.loaded = LoadedFrom(last.saved)

C19_Witness ==
    /\ last.op = "load"
    /\ last.saves = MaxSaves
    /\ last.earlier > Len(last.saved.tweets)
    /\ last.loaded.found
    /\ last.loaded.tweets = last.saved.tweets

(* C20: An unreadable checkpoint is treated as absent.  When the metadata  *)
(* or the record payload cannot be parsed, load() returns absent, and a    *)
(* fetch_likes(resume=True) proceeds into pagination with nothing seeded   *)
(* from the checkpoint and no cursor.                                      *)
C20_UnreadableCheckpointIsAbsent ==
    /\ [](Unreadable(CurFiles) => ~CheckpointLoad(CurFiles).found)
    /\ [][ (ResumeCallStep /\ Unreadable(CurFiles))
           => ( /\ pc' = "loop"
                /\ seed' = <<>>
                /\ selfTweets' = selfTweets
                /\ start_cursor' = None
                /\ cursor' = None
                /\ requests' = <<>> ) ]_vars

C20_Witness ==
    /\ pc = "fetch"
    /\ page_count = 0
    /\ resume
    /\ prev.outcome = "payload_open"
    /\ prev.user = user_id
    /\ seed = <<>>
    /\ requests = <<None>>
    /\ ~metaFile.present
    /\ ~tweetsFile.present

-----------------------------------------------------------------------------
(* C21: The engine refuses to start without credentials.  Constructing the *)
(* exporter from a cookie set that lacks the ct0 entry or the auth_token   *)
(* entry raises, the refused construction is followed by nothing, and no   *)
(* page request is ever issued with such a cookie set.                     *)
C21_NoCredentialsNoRequests ==
    /\ [][ (pc = "new" /\ (cookies["ct0"] = "absent" \/ cookies["auth_token"] = "absent"))
           => pc' = "refused" ]_vars
    /\ [][ pc # "refused" ]_vars
    /\ []( (requests # <<>> \/ pc \notin {"new", "refused"})
           => (cookies["ct0"] # "absent" /\ cookies["auth_token"] # "absent") )

C21_Witness ==
    /\ pc = "refused"
    /\ cookies["ct0"] = "set"
    /\ cookies["auth_token"] = "absent"
    /\ requests = <<>>

(* C22: Auth cache semantics.  For one XAuthenticator, once a call of      *)
(* get_bearer_token() (resp. get_query_id(name)) has succeeded, every      *)
(* later call returns that same value and makes no network fetch; a call   *)
(* whose extraction fails stores nothing, and a call made while nothing is *)
(* stored performs the extraction (it fetches).                            *)
C22_AuthCache ==
    /\ [][ (auth'.op = "get_bearer_token" /\ auth'.calls = auth.calls + 1)
           => /\ auth'.query_ids = auth.query_ids
              /\ IF auth.bearer_token # ""
                 THEN /\ auth'.returned = auth.bearer_token
                      /\ auth'.fetches = auth.fetches
                      /\ auth'.bearer_token = auth.bearer_token
                 ELSE /\ auth'.fetches > auth.fetches
                      /\ IF auth'.returned = "raised"
                         THEN auth'.bearer_token = ""
                         ELSE auth'.bearer_token = auth'.returned ]_vars
    /\ [][ (auth'.op = "get_query_id" /\ auth'.calls = auth.calls + 1)
           => /\ auth'.bearer_token = auth.bearer_token
              /\ \A n \in OperationNames \ {auth'.asked} :
                     auth'.query_ids[n] = auth.query_ids[n]
              /\ IF auth.query_ids[auth'.asked] # ""
                 THEN /\ auth'.returned = auth.query_ids[auth'.asked]
                      /\ auth'.fetches = auth.fetches
                      /\ auth'.query_ids = auth.query_ids
                 ELSE /\ auth'.fetches > auth.fetches
                      /\ IF auth'.returned = "raised"
                         THEN auth'.query_ids[auth'.asked] = ""
                         ELSE auth'.query_ids[auth'.asked] = auth'.returned ]_vars

\* A failed extraction, then a successful one, then two calls served from
\* the cache while the network would have answered.
C22_Witness ==
    /\ auth.calls = MaxCalls
    /\ auth.fetches = 3
    /\ auth.op = "get_bearer_token"
    /\ auth.returned = "Bearer 1"
    /\ auth.bearer_token = "Bearer 1"

-----------------------------------------------------------------------------
(* Vocabulary of the properties of the request sequence                    *)

RECURSIVE PagesOf(_, _)
\* The records of the pages requested with the cursors cs, in that order.
PagesOf(u, cs) ==
    IF cs = <<>> THEN <<>>
    ELSE PageTweets(u, PageOfCursor(Head(cs))) \o PagesOf(u, Tail(cs))

InCall == pc \in {"loop", "fetch", "rate_sleep", "delay", "returned"}

(* C23: Cursor chaining.  In a call of fetch_all_likes the first request   *)
(* carries the start cursor, each later request carries the next cursor    *)
(* the request before it returned, no cursor is requested twice, at most   *)
(* one request is unanswered (exactly one while the flow is inside the     *)
(* request), and the accumulated list is the concatenation of the answered *)
(* pages in request order; a run that is not stopped returns after the     *)
(* page that ends the stream.  For pages of 20/20/0 records with the third *)
(* cursor absent this is 3 requests and 40 records.                        *)
C23_CursorChaining ==
    InCall =>
        /\ requests # <<>> => requests[1] = start_cursor
        /\ \A i \in 1..(Len(requests) - 1) :
               requests[i + 1] = PageNextCursor(PageOfCursor(requests[i]))
        /\ \A i, j \in 1..Len(requests) : requests[i] = requests[j] => i = j
        /\ Len(requests) = page_count + (IF pc = "fetch" THEN 1 ELSE 0)
        /\ all_tweets = PagesOf(user_id, SubSeq(requests, 1, page_count))
        /\ (pc = "returned" /\ ~stopped) =>
               /\ requests # <<>>
               /\ EndOfStream(next_cursor, tweets)
               /\ all_tweets = FetchFrom(user_id, PageOfCursor(start_cursor))
        /\ ( /\ pc = "returned" /\ ~stopped /\ start_cursor = None
             /\ streamLen = 3 /\ emptyPage = 3 /\ pageSize = 20 )
           => /\ requests = <<None, 2, 3>>
              /\ Len(all_tweets) = 40

C23_Witness ==
    /\ pc = "returned"
    /\ ~stopped
    /\ start_cursor = None
    /\ streamLen = 3
    /\ emptyPage = 3
    /\ pageSize = 20
    /\ Len(requests) = 3
    /\ Len(all_tweets) = 40

(* C24: Cooperative cancellation.  With a stop predicate supplied, it has  *)
(* been evaluated once for each request issued, plus the evaluation that   *)
(* returned true; it is evaluated only at the top of an iteration, when    *)
(* the page of every request issued so far has been appended to the        *)
(* accumulation; and once it has returned true no request is issued in     *)
(* that call.                                                              *)
C24_CooperativeCancellation ==
    /\ []( (InCall /\ stop_callback)
           => stop_checks = Len(requests) + (IF stopped THEN 1 ELSE 0) )
    /\ [][ (InCall /\ stop_checks' = stop_checks + 1)
           => /\ pc = "loop"
              /\ Len(requests) = page_count
              /\ all_tweets = PagesOf(user_id, requests)
              /\ pc' \in {"fetch", "returned"}
              /\ pc' = "returned" <=> stopped'
              /\ pc' = "fetch" <=> requests' = Append(requests, cursor) ]_vars
    /\ [][ (InCall /\ pc # "loop") => stop_checks' = stop_checks \/ ~InCall' ]_vars
    /\ [][ stopped => (requests' = requests \/ requests' = <<>>) ]_vars
    /\ []( (InCall /\ stopped) => pc = "returned" )

C24_Witness ==
    /\ pc = "returned"
    /\ stopped
    /\ stop_checks = 2
    /\ Len(requests) = 1
    /\ page_count = 1
    /\ all_tweets = PageTweets(user_id, 1)
    /\ all_tweets # <<>>

(* C25: No internal retry.  A step that leaves the page request either     *)
(* appends the page or ends the call with the error at the caller: the     *)
(* failing cursor was requested once, self.tweets and the checkpoint files *)
(* are as they were, nothing is returned, and a request is issued again    *)
(* only by a new call of fetch_likes.                                      *)
C25_NoInternalRetry ==
    /\ [][ pc = "fetch"
           => /\ Len(requests) = page_count + 1
              /\ \A i \in 1..page_count : requests[i] # cursor
              /\ \/ /\ page_count' = page_count + 1
                    /\ requests' = requests
                    /\ pc' \in {"returned", "rate_sleep", "delay"}
                 \/ /\ pc' = "idle"
                    /\ outcome' = "error"
                    /\ requests' = <<>>
                    /\ result' = <<>>
                    /\ selfTweets' = selfTweets
                    /\ metaFile' = metaFile
                    /\ tweetsFile' = tweetsFile
                    /\ runs' = runs ]_vars
    /\ [][ (requests' # requests /\ requests' # <<>>) => pc = "loop" ]_vars
    /\ [][ (pc = "idle" /\ pc' # "idle") => runs' = runs + 1 ]_vars

\* A request failed on the second page of a call.
C25_Witness ==
    /\ pc = "idle"
    /\ outcome = "error"
    /\ runs = 1
    /\ requests = <<>>
    /\ streamLen = MaxPages
    /\ enable_checkpoints
    /\ metaFile.present
    /\ metaFile.cursor = MaxPages

(* C27: Fixed polite delay.  When a request is issued, the call has slept  *)
(* one polite delay for each request before it: exactly one between two    *)
(* consecutive requests; the rate-limit sleep, when there is one, is       *)
(* followed by the polite delay and does not replace it.                   *)
C27_FixedPoliteDelay ==
    /\ []( InCall
           => delays = IF pc = "loop" \/ (pc = "returned" /\ stopped)
                       THEN Len(requests) ELSE Len(requests) - 1 )
    /\ [][ requests' = Append(requests, cursor) => delays = Len(requests) ]_vars
    /\ [][ pc = "rate_sleep" => (pc' = "delay" /\ delays' = delays) ]_vars
    /\ [][ (InCall /\ InCall' /\ delays' # delays)
           => (pc = "delay" /\ pc' = "loop" /\ delays' = delays + 1) ]_vars

\* The second request of a call, after a rate-limit sleep and one delay.
C27_Witness ==
    /\ pc = "fetch"
    /\ Len(requests) = 2
    /\ delays = 1
    /\ wait_time > 0
    /\ ShouldWait(rate_limit)

-----------------------------------------------------------------------------
(* Vocabulary of the properties of the persisted checkpoint                *)

\* A completed checkpoint is on disk, and every record of its payload is a
\* record of the user it was saved for.
OneUserCheckpoint ==
    /\ CheckpointExists(CurFiles)
    /\ metaFile.readable
    /\ tweetsFile.readable
    /\ \A i \in 1..Len(tweetsFile.tweets) : tweetsFile.tweets[i].id[1] = metaFile.user_id

(* C26: Resume from a checkpoint whose cursor is absent and whose payload  *)
(* is not empty requests the first page first, and when the call runs to   *)
(* the end of the stream it returns a list with the id set of one          *)
(* uninterrupted run and with no id twice.                                 *)
C26_ResumeWithoutCursor ==
    ( /\ resume
      /\ seed # <<>>
      /\ start_cursor = None )
    => /\ (InCall /\ requests # <<>>) => requests[1] = None
       /\ (pc = "idle" /\ outcome = "complete") => SameIdsAsUninterrupted

(* C29: Checkpoint cursor and records agree.  In a completed checkpoint of *)
(* one user's records whose cursor is present, the payload ends with the   *)
(* page that returned that cursor, every page before the cursor's page is  *)
(* in the payload, and no record of the cursor's page or of a later page   *)
(* is: the resume fetches the first page not yet in the payload.           *)
C29_CursorAgreesWithRecords ==
    (OneUserCheckpoint /\ metaFile.cursor # None)
    => LET u == metaFile.user_id
           k == PageOfCursor(metaFile.cursor)
           held == IdsOf(tweetsFile.tweets)
       IN /\ PageNextCursor(k - 1) = metaFile.cursor
          /\ IsSuffix(PageTweets(u, k - 1), tweetsFile.tweets)
          /\ \A i \in 1..(k - 1) : IdsOf(PageTweets(u, i)) \subseteq held
          /\ \A i \in k..streamLen : IdsOf(PageTweets(u, i)) \cap held = {}

(* C30: No duplicate ids in a checkpoint.  A completed checkpoint of one   *)
(* user's records never holds the same id twice.                           *)
C30_NoDuplicateIdsInCheckpoint ==
    OneUserCheckpoint => NoDuplicateIds(tweetsFile.tweets)

-----------------------------------------------------------------------------
(* Vocabulary of the properties of the parsed page                         *)

RECURSIVE ParseableFrom(_, _)
\* The Tweets of the entries that parse, in entry order.
ParseableFrom(entries, i) ==
    IF i > Len(entries) THEN <<>>
    ELSE (IF entries[i] = "tweet" THEN <<Tweet("A", 1, i)>> ELSE <<>>)
         \o ParseableFrom(entries, i + 1)

\* The value of the page's first Bottom cursor entry, None without one.
BottomCursor(entries) ==
    LET at == {i \in 1..Len(entries) : entries[i] = "cursor_bottom"}
    IN IF at = {} THEN None ELSE CHOOSE i \in at : \A j \in at : i <= j

(* C28: Unparseable entries are not fatal to the page.  Whatever entries   *)
(* of a page fail to parse, fetch_likes raises nothing and returns the     *)
(* entries that parse, in their order, with the page's bottom cursor.      *)
C28_UnparseableEntriesDropped ==
    pc = "parsed"
    => /\ outcome # "error"
       /\ tweets = ParseableFrom(response, 1)
       /\ next_cursor = BottomCursor(response)

-----------------------------------------------------------------------------
(* C31: A checkpoint holds only this run's data.  Every save made during a *)
(* fetch_likes call leaves a checkpoint whose records are the seed the     *)
(* call loaded (empty when it loaded nothing) followed by the pages it has *)
(* fetched so far, whatever the exporter held before the call.             *)
C31_CheckpointHoldsOnlyThisRun ==
    [][ ( /\ pc \in {"loop", "fetch"}
          /\ pc' # "idle"
          /\ (metaFile' # metaFile \/ tweetsFile' # tweetsFile) )
        => ( /\ metaFile'.present
             /\ tweetsFile'.present
             /\ metaFile'.user_id = user_id
             /\ tweetsFile'.tweets = seed \o all_tweets' ) ]_vars

(* C32: A fetch that loads no checkpoint returns only what it fetched.     *)
(* When the call seeded nothing from a checkpoint, with resume requested   *)
(* or not, the list it returns is the concatenation of the pages fetched   *)
(* during the call, whatever the exporter held before the call.            *)
C32_NoCheckpointReturnsOnlyFetched ==
    [][ (pc = "returned" /\ pc' = "idle" /\ seed = <<>>)
        => result' = all_tweets ]_vars

(* C33: A failed run does not destroy progress.  When a fetch_likes call   *)
(* aborts with an error of a page request, the checkpoint artifacts that   *)
(* existed at that moment are present and unchanged afterwards.            *)
C33_FailedRunKeepsCheckpoint ==
    [][ (pc = "fetch" /\ pc' = "idle")
        => ( /\ outcome' = "error"
             /\ metaFile' = metaFile
             /\ tweetsFile' = tweetsFile ) ]_vars

\* A resumed call failed after a stopped one; the checkpoint it resumed from
\* is on disk.
C33_Witness ==
    /\ pc = "idle"
    /\ outcome = "error"
    /\ resume
    /\ prev.outcome = "stopped"
    /\ prev.user = user_id
    /\ CheckpointExists(CurFiles)
    /\ metaFile.user_id = user_id
    /\ tweetsFile.tweets = seed
    /\ seed # <<>>

-----------------------------------------------------------------------------
(* Vocabulary of the properties of the two artifacts                       *)

\* When both artifacts are there and readable, the metadata counts the
\* records of the payload.
CountAgrees(f) ==
    (f.meta.present /\ f.meta.readable /\ f.tweets.present /\ f.tweets.readable)
    => f.meta.total_fetched = Len(f.tweets.tweets)

\* The step is one in which the process is killed inside save().
KilledStep == pc # "idle" /\ pc' = "idle" /\ outcome' \in CrashPoints

(* C34: Metadata and payload agree on the count.  Every step of the        *)
(* exporter that changes an artifact and is not a kill inside save()       *)
(* leaves artifacts whose total_fetched is the number of payload records;  *)
(* the agreement is lost only in a step killed between the metadata write  *)
(* and the payload write.                                                  *)
C34_CountAgrees ==
    /\ [][ ((metaFile' # metaFile \/ tweetsFile' # tweetsFile) /\ ~KilledStep)
           => CountAgrees(CurFiles)' ]_vars
    /\ [][ (CountAgrees(CurFiles) /\ ~CountAgrees(CurFiles)')
           => (KilledStep /\ outcome' = "meta_written") ]_vars

\* Killed between the two writes: the new metadata beside the older payload.
C34_Witness ==
    /\ pc = "idle"
    /\ outcome = "meta_written"
    /\ metaFile.present /\ metaFile.readable
    /\ tweetsFile.present /\ tweetsFile.readable
    /\ tweetsFile.tweets # <<>>
    /\ metaFile.total_fetched > Len(tweetsFile.tweets)

(* C35: Termination.  Over a finite stream, with every request answered    *)
(* and every sleep returning, a call of fetch_all_likes eventually         *)
(* returns, stopped or not; it never has issued more requests than the     *)
(* stream has pages from its start cursor on.                              *)
C35_Termination ==
    /\ (pc \in {"loop", "fetch", "rate_sleep", "delay"}) ~> (pc = "returned")
    /\ [](InCall => Len(requests) <= streamLen + 1 - PageOfCursor(start_cursor))

\* A call returned at the end of a stream of MaxPages pages, one request each.
C35_Witness ==
    /\ pc = "returned"
    /\ ~stopped
    /\ start_cursor = None
    /\ streamLen = MaxPages
    /\ Len(requests) = MaxPages

(* C36: A page whose entries all fail to parse ends pagination.  When a    *)
(* response brings a next cursor but no record, fetch_all_likes returns    *)
(* without moving to that cursor and without another request, so the       *)
(* accumulation holds no record of a later page.                           *)
C36_EmptyPageEndsPagination ==
    /\ [][ (pc = "fetch" /\ page_count' = page_count + 1 /\ tweets' = <<>>)
           => (pc' = "returned" /\ cursor' = cursor) ]_vars
    /\ [][ pc = "returned" => (requests' = requests \/ requests' = <<>>) ]_vars
    /\ []( (pc = "returned" /\ ~stopped /\ tweets = <<>> /\ next_cursor # None)
           => /\ requests[Len(requests)] = cursor
              /\ \A i \in (PageOfCursor(cursor) + 1)..streamLen :
                     IdsOf(PageTweets(user_id, i)) \cap IdsOf(all_tweets) = {} )

\* The first page of a longer stream brought a cursor and no record.
C36_Witness ==
    /\ pc = "returned"
    /\ ~stopped
    /\ tweets = <<>>
    /\ next_cursor # None
    /\ Len(requests) = 1
    /\ streamLen > PageOfCursor(cursor)
    /\ PageTweets(user_id, next_cursor) # <<>>

(* C37: With checkpoints disabled no step of any fetch_likes call changes  *)
(* a checkpoint artifact, and a call with resume=True behaves as a fresh   *)
(* run: it starts without cursor and without seed, and returns the         *)
(* concatenation of the pages it fetched.                                  *)
C37_DisabledCheckpointsAreInert ==
    /\ [][ metaFile' = metaFile /\ tweetsFile' = tweetsFile ]_vars
    /\ []( (InCall /\ resume) => (start_cursor = None /\ seed = <<>>) )
    /\ [][ (pc = "returned" /\ pc' = "idle" /\ resume) => result' = all_tweets ]_vars

(* C38: A rate-limit wait of zero is skipped entirely.  When the page that *)
(* was appended does not end the stream, should_wait() is true and the     *)
(* computed wait is 0, the step makes no pre-wait save and goes to the     *)
(* polite delay, not to the rate-limit sleep; the delay leads to the next  *)
(* iteration.  The rate-limit sleep is entered only with a wait above 0.   *)
C38_ZeroWaitSkipped ==
    /\ [][ ( /\ pc = "fetch"
             /\ page_count' = page_count + 1
             /\ pc' # "returned"
             /\ ShouldWait(rate_limit')
             /\ \A now \in RunClocks : GetWaitTime(rate_limit', now) = 0 )
           => ( /\ pc' = "delay"
                /\ wait_time' = 0
                /\ PeriodicDue(page_count')
                   \/ (metaFile' = metaFile /\ tweetsFile' = tweetsFile) ) ]_vars
    /\ [][ pc = "delay" => (pc' = "loop" /\ requests' = requests) ]_vars
    /\ [](pc = "rate_sleep" => wait_time > 0)

\* Exhausted quota whose reset passed WaitBuffer seconds ago: no sleep.
C38_Witness ==
    /\ pc = "delay"
    /\ rate_limit.remaining = 0
    /\ rate_limit.reset = MaxNow - WaitBuffer
    /\ wait_time = 0
    /\ enable_checkpoints
    /\ ~metaFile.present
    /\ all_tweets # <<>>

====
